---- MODULE Spec2Model ----
(***************************************************************************)
(* A state-machine model of echopype's calibration entry points            *)
(* (calibrate/api.py), the Process parameter bookkeeping                   *)
(* (process/process_new.py), the EchoData data model                       *)
(* (process/echodata.py, utils/io.py) and the Convert wrapper              *)
(* (convert/convert.py).                                                   *)
(***************************************************************************)
EXTENDS Integers, Sequences, FiniteSets, TLC

VARIABLES
    cal,    \* the last call of calibrate.api.compute_Sv / compute_Sp and what it did
    proc,   \* the Process object: its fields and the outcome of the last operation on it
    ed,     \* the EchoData object: _X_path, _X, _file_format, _sonar_model
    last,   \* the last operation on the EchoData object and its outcome
    conv    \* the call of Convert: its arguments and what it returned or raised

vars == <<cal, proc, ed, last, conv>>

\* Python's None
None == "None"

(***************************************************************************)
(* calibrate/api.py                                                        *)
(***************************************************************************)

\* CALIBRATOR = {"EK60": CalibrateEK60, "EK80": CalibrateEK80, "AZFP": CalibrateAZFP}
CALIBRATOR ==
    [m \in {"EK60", "EK80", "AZFP"} |->
        CASE m = "EK60" -> "CalibrateEK60"
          [] m = "EK80" -> "CalibrateEK80"
          [] m = "AZFP" -> "CalibrateAZFP"]

\* the sonar models an echodata object handed to the api may carry
SonarModels == {"EK60", "EK80", "AZFP", "EA640"}

\* the values a caller may pass as waveform_mode / encode_mode: unspecified,
\* the documented ones, and one unrecognized value each
WaveformInputs == {None, "BB", "CW", "FM"}
EncodeInputs == {None, "complex", "power", "angle"}
CalTypes == {"Sv", "Sp"}

\* no object (no calibrator constructed, no method invoked)
NoObj == [cls |-> None]

\* a mutation of SanityCheck: the encode_mode test is missing
SanityCheckNoEncode(waveform_mode, encode_mode) ==
    IF waveform_mode # None /\ waveform_mode \notin {"BB", "CW"}
    THEN "Input waveform_mode not recognized!"
    ELSE "ok"

\* api.py 18-22: "Sanity check on inputs"; the message of the ValueError
\* raised, or "ok"
SanityCheck(waveform_mode, encode_mode) ==
    IF waveform_mode # None /\ waveform_mode \notin {"BB", "CW"}
    THEN "Input waveform_mode not recognized!"
    ELSE IF encode_mode # None /\ encode_mode \notin {"complex", "power"}
    THEN "Input encode_mode not recognized!"
    ELSE "ok"

\* The calibrator classes (calibrate_ek.py, calibrate_azfp.py) are not part of
\* the sources at hand; their compute_Sv / compute_Sp is modelled from the
\* specification's section 4.3: a broadband-capable model needs both modes,
\* and broadband with any encoding but complex is a configuration error.
CalibratorCompute(cls, waveform_mode, encode_mode) ==
    IF cls = "CalibrateEK80" /\ (waveform_mode = None \/ encode_mode = None)
    THEN "ConfigurationError"
    ELSE IF waveform_mode = "BB" /\ encode_mode # "complex"
    THEN "ConfigurationError"
    ELSE "dataset"

\* api.py 10-36: _compute_cal, as the record of what one call did
_compute_cal(cal_type, sonar_model, waveform_mode, encode_mode) ==
    LET args == [cal_type |-> cal_type, sonar_model |-> sonar_model,
                 waveform_mode |-> waveform_mode, encode_mode |-> encode_mode]
        check == SanityCheck(waveform_mode, encode_mode)
    IN  IF check # "ok"
        THEN [args |-> args, outcome |-> "ValueError", msg |-> check,
              constructed |-> NoObj, invoked |-> NoObj]
        ELSE IF sonar_model \notin DOMAIN CALIBRATOR
        THEN [args |-> args, outcome |-> "KeyError", msg |-> sonar_model,
              constructed |-> NoObj, invoked |-> NoObj]
        ELSE LET cls == CALIBRATOR[sonar_model]
                 method == IF cal_type = "Sv" THEN "compute_Sv" ELSE "compute_Sp"
             IN  [args |-> args,
                  outcome |-> CalibratorCompute(cls, waveform_mode, encode_mode),
                  msg |-> "",
                  constructed |-> [cls |-> cls, waveform_mode |-> waveform_mode,
                                   encode_mode |-> encode_mode],
                  invoked |-> [cls |-> cls, method |-> method,
                               waveform_mode |-> waveform_mode,
                               encode_mode |-> encode_mode]]

\* no call made yet
NoCall == [args |-> None, outcome |-> None, msg |-> "", constructed |-> NoObj,
           invoked |-> NoObj]

\* api.py 39-79: compute_Sv(echodata, **kwargs)
compute_Sv ==
    /\ \E m \in SonarModels, w \in WaveformInputs, e \in EncodeInputs :
          cal' = _compute_cal("Sv", m, w, e)
    /\ UNCHANGED <<proc, ed, last, conv>>

\* api.py 82-122: compute_Sp(echodata, **kwargs)
compute_Sp ==
    /\ \E m \in SonarModels, w \in WaveformInputs, e \in EncodeInputs :
          cal' = _compute_cal("Sp", m, w, e)
    /\ UNCHANGED <<proc, ed, last, conv>>

CalInit ==
    /\ cal = NoCall
    /\ proc = None
    /\ ed = None
    /\ last = None
    /\ conv = None

CalNext == compute_Sv \/ compute_Sp

SpecCal == CalInit /\ [][CalNext]_vars

(***************************************************************************)
(* utils/io.py and the files on disk                                       *)
(***************************************************************************)

\* EchoData.DATA_TYPES, echodata.py 23
DATA_TYPES == <<"raw", "Sv", "Sv_clean", "Sp", "MVBS">>
TypeSet == {DATA_TYPES[i] : i \in DOMAIN DATA_TYPES}

\* the groups of a converted file that EchoData opens; None is the top level
Groups == {"Beam", "Environment", "Vendor"}

\* The converted files the model's file system holds.  Each has a container
\* format, the sonar model recorded in its keywords attribute, its ping times
\* (non-decreasing within one file) and, for every group, the value of the
\* group's key parameter (a variable without the ping_time dimension).
\* a.nc and b.nc are two files of one deployment, b.nc recorded after a.nc;
\* c.nc was recorded with another instrument configuration.
FileNames == {"a.nc", "b.nc", "c.nc", "z.zarr"}
FileSys ==
    [f \in FileNames |->
        CASE f = "a.nc" ->
               [fmt |-> "netcdf4", keywords |-> "EK60", ping_time |-> <<1, 2>>,
                cfg |-> [g \in Groups \cup {None} |-> 1]]
          [] f = "b.nc" ->
               [fmt |-> "netcdf4", keywords |-> "EK60", ping_time |-> <<3, 4>>,
                cfg |-> [g \in Groups \cup {None} |-> 1]]
          [] f = "c.nc" ->
               [fmt |-> "netcdf4", keywords |-> "EK80", ping_time |-> <<5>>,
                cfg |-> [g \in Groups \cup {None} |->
                            IF g = "Environment" THEN 1 ELSE 2]]
          [] f = "z.zarr" ->
               [fmt |-> "zarr", keywords |-> "AZFP", ping_time |-> <<6>>,
                cfg |-> [g \in Groups \cup {None} |-> 1]]]

\* the key parameter of each group, as named in xarray's MergeError
ParamName(group) ==
    CASE group = "Beam" -> "sample_interval"
      [] group = "Environment" -> "sound_speed_indicative"
      [] group = "Vendor" -> "gain_correction"
      [] OTHER -> "frequency"

\* the strings a user may give as a path, with os.path.splitext(path)[1] and
\* path[0] of each; "dir" is a folder, "f.raw" an unconverted file
PathStrings == {"a.nc", "z.zarr", "dir", "f.raw"}
splitext(s) ==
    CASE s \in {"a.nc", "b.nc", "c.nc", "d.nc"} -> ".nc"
      [] s = "z.zarr" -> ".zarr"
      [] s \in {"f.raw", "https://h/g.raw", "s3://b/h.raw", "missing.raw"} -> ".raw"
      [] s \in {"d.01A", "http://h/e.01A"} -> ".01A"
      [] s = "notes.txt" -> ".txt"
      [] OTHER -> ""
FirstChar(s) ==
    CASE s = "a.nc" -> "a"
      [] s = "z.zarr" -> "z"
      [] s = "dir" -> "d"
      [] OTHER -> "f"

\* os.listdir("dir"): the names in the folder, without the folder
listdir(folder) == <<"d.nc", "notes.txt">>

\* io.py 47-49: get_files_from_dir
get_files_from_dir(folder) ==
    SelectSeq(listdir(folder), LAMBDA f : splitext(f) \in {".nc", ".zarr"})

\* io.py 62-67: get_file_format of a string
get_file_format(file) ==
    IF splitext(file) = ".nc" THEN "netcdf4"
    ELSE IF splitext(file) = ".zarr" THEN "zarr"
    ELSE None

(***************************************************************************)
(* Values: paths and datasets                                              *)
(***************************************************************************)

PNone == [kind |-> "None"]
PStr(s) == [kind |-> "str", s |-> s]
PList(l) == [kind |-> "list", l |-> l]
POther == [kind |-> "other"]

NoData == [kind |-> "None"]

\* the lists of files a user may give as a path
PathLists ==
    {<<"a.nc">>, <<"a.nc", "b.nc">>, <<"b.nc", "a.nc">>, <<"c.nc", "a.nc">>,
     <<"z.zarr">>}

\* the values a user may assign to X_path
PathInputs ==
    {PNone, POther} \cup {PStr(s) : s \in PathStrings}
        \cup {PList(l) : l \in PathLists}

RECURSIVE ConcatPings(_)
\* concatenation along ping_time, in the order the files are listed
ConcatPings(paths) ==
    IF paths = <<>> THEN <<>>
    ELSE FileSys[Head(paths)].ping_time \o ConcatPings(Tail(paths))

\* xr.open_dataset / one file of open_mfdataset: the file must exist and be
\* of the engine's format; without an engine the netCDF reader is used
\* (echodata.py 140-141: reading .zarr with an empty _file_format fails)
CanOpen(file, engine) ==
    /\ file \in FileNames
    /\ FileSys[file].fmt = (IF engine = None THEN "netcdf4" ELSE engine)

\* xr.open_mfdataset(paths, group=group, combine="nested", concat_dim=...,
\* data_vars="minimal", engine=engine): a string is a glob pattern; the files
\* are combined in the order given; a variable that is not concatenated must
\* be equal in all files, or xr.MergeError names it between quotes; without
\* a concat_dim the files are merged and no ping_time axis is built
open_mfdataset(stored, group, concat_dim, engine) ==
    LET paths == IF stored.kind = "str" THEN <<stored.s>> ELSE stored.l
    IN  IF paths = <<>> \/ \E i \in DOMAIN paths : ~CanOpen(paths[i], engine)
        THEN [exc |-> "IOError", msg |-> <<"cannot open the files">>, ds |-> NoData]
        ELSE IF \E i, j \in DOMAIN paths :
                    FileSys[paths[i]].cfg[group] # FileSys[paths[j]].cfg[group]
        THEN [exc |-> "MergeError",
              msg |-> <<"conflicting values for variable ", ParamName(group),
                        " on objects to be combined">>,
              ds |-> NoData]
        ELSE [exc |-> "none", msg |-> <<>>,
              ds |-> [kind |-> "Dataset", files |-> paths, group |-> group,
                      ping_time |-> IF concat_dim = "ping_time"
                                   THEN ConcatPings(paths) ELSE <<>>,
                      cfg |-> FileSys[paths[1]].cfg[group]]]

(***************************************************************************)
(* process/echodata.py: EchoData                                           *)
(***************************************************************************)

\* the outcome of a call that raised nothing
Ok == [exc |-> "none", msg |-> ""]
Raise(exc, msg) == [exc |-> exc, msg |-> msg]

\* echodata.py 95-99 and 158-160: except xr.MergeError: the variable's name
\* is the text between the first two quotes of the message; it is raised
\* again as a ValueError that names it
MergeErrorHandler(r) ==
    IF r.exc = "MergeError"
    THEN [r EXCEPT !.exc = "ValueError", !.msg = r.msg[2]]
    ELSE IF r.exc = "none" THEN [r EXCEPT !.msg = ""]
    ELSE [r EXCEPT !.msg = "cannot open the files"]

\* echodata.py 81-103: _check_key_param_consistency, wrapped around the
\* opening of one group of the raw files
from_raw(e, group, concat_dim) ==
    IF e.path["raw"] = PNone
    THEN [exc |-> "ValueError", msg |-> "No raw files to open", ds |-> NoData]
    ELSE MergeErrorHandler(
            open_mfdataset(e.path["raw"], group, concat_dim, e.file_format))

\* a mutation of get_env_from_raw: the Environment group is read through the
\* Beam group's dataset, which must have been loaded
get_env_needs_beam(e) ==
    IF e.data["raw"] = NoData
    THEN [exc |-> "ValueError", msg |-> "No raw files to open", ds |-> NoData]
    ELSE from_raw(e, "Environment", "ping_time")

\* echodata.py 110-121
get_env_from_raw(e) == from_raw(e, "Environment", "ping_time")

\* echodata.py 123-134
get_vend_from_raw(e) == from_raw(e, "Vendor", None)

\* echodata.py 136-149
get_beam_from_raw(e) == from_raw(e, "Beam", "ping_time")

\* echodata.py 151-160: _get_data_from_file; io.get_file_format of a list
\* raises AttributeError (a list has no endswith)
_get_data_from_file(files) ==
    IF files.kind # "str"
    THEN [exc |-> "AttributeError", msg |-> "'list' object has no attribute 'endswith'",
          ds |-> NoData]
    ELSE MergeErrorHandler(
            open_mfdataset(files, None, "ping_time", get_file_format(files.s)))

\* echodata.py 162-169
_open(e, files, group) ==
    IF group = "Beam" THEN get_beam_from_raw(e) ELSE _get_data_from_file(files)

\* echodata.py 171-191: _update_file_list; the value stored in _X_path, or
\* the ValueError
_update_file_list(path) ==
    IF path.kind = "str"
    THEN IF splitext(path.s) = ""
         THEN [exc |-> "none", stored |-> PList(get_files_from_dir(path.s))]
         ELSE IF splitext(path.s) \in {".nc", ".zarr"}
         THEN [exc |-> "none", stored |-> path]
         ELSE [exc |-> "ValueError", stored |-> PNone]
    ELSE IF path.kind = "list"
    THEN [exc |-> "none", stored |-> path]
    ELSE [exc |-> "ValueError", stored |-> PNone]

\* echodata.py 200-204: _update_data_pointer for a path that is not None: the
\* file list is stored, then the files are opened
_update_data_pointer_open(e, path, t) ==
    LET u == _update_file_list(path)
    IN  IF u.exc # "none"
        THEN [e |-> e, res |-> Raise(u.exc, "Unsupported file path")]
        ELSE LET e1 == [e EXCEPT !.path[t] = u.stored]
                 r == _open(e1, u.stored, IF t = "raw" THEN "Beam" ELSE None)
             IN  IF r.exc # "none"
                 THEN [e |-> e1, res |-> Raise(r.exc, r.msg)]
                 ELSE [e |-> [e1 EXCEPT !.data[t] = r.ds], res |-> Ok]

\* a mutation of _update_data_pointer: None releases the dataset and keeps
\* the path
_update_data_pointer_keeps_path(e, path, t) ==
    IF path = PNone
    THEN [e |-> [e EXCEPT !.data[t] = NoData], res |-> Ok]
    ELSE _update_data_pointer_open(e, path, t)

\* echodata.py 193-204: _update_data_pointer; the object after the call and
\* what the call raised
_update_data_pointer(e, path, t) ==
    IF path = PNone
    THEN [e |-> [e EXCEPT !.data[t] = NoData, !.path[t] = PNone], res |-> Ok]
    ELSE _update_data_pointer_open(e, path, t)

RECURSIVE InitLoop(_, _, _)
\* echodata.py 59-69: the loop of __init__ from the i-th data type on
InitLoop(e, args, i) ==
    IF i > Len(DATA_TYPES) THEN [e |-> e, res |-> Ok]
    ELSE LET t == DATA_TYPES[i]
             arg == args[t]
             files == IF arg.kind = "str" THEN PList(<<arg.s>>) ELSE arg
         IN  IF files.kind = "other" \/ (files.kind = "list" /\ files.l = <<>>)
             THEN [e |-> e, res |-> Raise("TypeError", "files[0]")]
             ELSE LET e1 == [e EXCEPT
                                !.data[t] = NoData, !.path[t] = PNone,
                                !.file_format =
                                    IF e.file_format = None /\ files # PNone
                                    THEN get_file_format(files.l[1])
                                    ELSE e.file_format]
                      u == _update_data_pointer(e1, files, t)
                  IN  IF u.res.exc # "none" THEN u
                      ELSE InitLoop(u.e, args, i + 1)

\* echodata.py 53-72: __init__
EchoData(args) ==
    InitLoop([path |-> [t \in TypeSet |-> PNone],
              data |-> [t \in TypeSet |-> NoData],
              file_format |-> None,
              sonar_model |-> None], args, 1)

\* a mutation of sonar_model: the value is read from the file at every access
sonar_model_uncached(e) ==
    LET rp == e.path["raw"]
        file == IF rp.kind = "str" THEN FirstChar(rp.s)
                ELSE IF rp.kind = "list" /\ rp.l # <<>> THEN rp.l[1] ELSE None
    IN  IF rp = PNone THEN [e |-> e, res |-> Raise("TypeError", "raw_path[0]")]
        ELSE IF rp.kind = "list" /\ rp.l = <<>>
        THEN [e |-> e, res |-> Raise("IndexError", "raw_path[0]")]
        ELSE IF ~CanOpen(file, e.file_format)
        THEN [e |-> e, res |-> Raise("IOError", "cannot open the files")]
        ELSE [e |-> [e EXCEPT !.sonar_model = FileSys[file].keywords], res |-> Ok]

\* echodata.py 74-79: the sonar_model property; the object after the read
\* (its _sonar_model is the value returned) and what the read raised
sonar_model(e) ==
    IF e.sonar_model # None THEN [e |-> e, res |-> Ok]
    ELSE LET rp == e.path["raw"]
             file == IF rp.kind = "str" THEN FirstChar(rp.s)
                     ELSE IF rp.kind = "list" /\ rp.l # <<>> THEN rp.l[1] ELSE None
         IN  IF rp = PNone THEN [e |-> e, res |-> Raise("TypeError", "raw_path[0]")]
             ELSE IF rp.kind = "list" /\ rp.l = <<>>
             THEN [e |-> e, res |-> Raise("IndexError", "raw_path[0]")]
             ELSE IF ~CanOpen(file, e.file_format)
             THEN [e |-> e, res |-> Raise("IOError", "cannot open the files")]
             ELSE [e |-> [e EXCEPT !.sonar_model = FileSys[file].keywords],
                   res |-> Ok]

\* echodata.py 206-212: close releases the files of the loaded datasets; no
\* field of the object is assigned
close(e) == e

(***************************************************************************)
(* The EchoData state machine                                              *)
(***************************************************************************)

\* the data types whose path the model's user assigns after construction
\* (the code treats Sv, Sv_clean, Sp and MVBS alike)
AssignedTypes == {"raw", "Sv"}

\* the constructor's arguments: any raw_path, and each other path absent or
\* one file
CtorArgs ==
    {[t \in TypeSet |-> IF t = "raw" THEN r
                        ELSE IF t \in S THEN PStr("a.nc") ELSE PNone] :
        r \in PathInputs, S \in SUBSET (TypeSet \ {"raw"})}

\* the record of one operation: what was called (on which data type, with
\* which path), what it raised and what it returned
Op(op, t, arg, res, ret) ==
    [op |-> op, type |-> t, arg |-> arg, exc |-> res.exc, msg |-> res.msg,
     ret |-> ret]

EdInit ==
    /\ \E args \in CtorArgs :
          /\ EchoData(args).res.exc = "none"
          /\ ed = EchoData(args).e
          /\ last = Op("__init__", None, PNone, Ok, NoData)
    /\ cal = NoCall
    /\ proc = None
    /\ conv = None

\* ed.X_path = p (PathSetGet.__set__, echodata.py 46-47)
SetPath ==
    /\ \E t \in AssignedTypes, p \in PathInputs :
          LET u == _update_data_pointer(ed, p, t)
          IN  /\ ed' = u.e
              /\ last' = Op("set_path", t, p, u.res, NoData)
    /\ UNCHANGED <<cal, proc, conv>>

\* ed.sonar_model
ReadSonarModel ==
    /\ LET u == sonar_model(ed)
       IN  /\ ed' = u.e
           /\ last' = Op("sonar_model", None, PNone, u.res,
                         [kind |-> "str", s |-> u.e.sonar_model])
    /\ UNCHANGED <<cal, proc, conv>>

\* ed.get_env_from_raw()
GetEnvFromRaw ==
    /\ LET r == get_env_from_raw(ed)
       IN  last' = Op("get_env_from_raw", None, PNone, r, r.ds)
    /\ UNCHANGED <<cal, proc, ed, conv>>

\* ed.get_vend_from_raw()
GetVendFromRaw ==
    /\ LET r == get_vend_from_raw(ed)
       IN  last' = Op("get_vend_from_raw", None, PNone, r, r.ds)
    /\ UNCHANGED <<cal, proc, ed, conv>>

\* ed.get_beam_from_raw()
GetBeamFromRaw ==
    /\ LET r == get_beam_from_raw(ed)
       IN  last' = Op("get_beam_from_raw", None, PNone, r, r.ds)
    /\ UNCHANGED <<cal, proc, ed, conv>>

\* ed.close()
Close ==
    /\ ed' = close(ed)
    /\ last' = Op("close", None, PNone, Ok, NoData)
    /\ UNCHANGED <<cal, proc, conv>>

Next ==
    \/ SetPath
    \/ ReadSonarModel
    \/ GetEnvFromRaw
    \/ GetVendFromRaw
    \/ GetBeamFromRaw
    \/ Close

Spec == EdInit /\ [][Next]_vars

(***************************************************************************)
(* process/process_new.py: Process                                         *)
(***************************************************************************)

\* Process.PROCESS_SONAR, process_new.py 26-31
PROCESS_SONAR ==
    [m \in {"AZFP", "EK60", "EK80", "EA640"} |->
        CASE m = "AZFP" -> "ProcessAZFP"
          [] m = "EK60" -> "ProcessEK60"
          [] OTHER -> "ProcessEK80"]

\* valid_params, process_new.py 106-107
valid_params ==
    {"sea_water_salinity", "sea_water_temperature", "sea_water_pressure",
     "speed_of_sound_in_sea_water", "seawater_absorption"}

\* the keys the model's user puts in a mapping: a measured parameter, the two
\* derived parameters, and the two unrecognized keys of the class's own use
\* case (process_new.py 20)
UserKeys ==
    {"sea_water_salinity", "speed_of_sound_in_sea_water", "seawater_absorption",
     "salinity", "pressure"}

\* bounds of the model: the number of keys of one assigned mapping, and the
\* number of distinct parameter values
MaxKeys == 2
MaxVal == 2
Values == 1..MaxVal

\* what process_obj.calc_sound_speed and calc_seawater_absorption return: a
\* calculated value, told apart from the values a user assigns
Calculated == 0

\* the mappings a user may assign to env_params
UserMappings ==
    UNION {[D -> Values] : D \in {S \in SUBSET UserKeys : Cardinality(S) <= MaxKeys}}

EmptyMap == [k \in {} |-> 0]

\* m with key k set to v (a dict item assignment)
SetItem(m, k, v) == [x \in DOMAIN m \cup {k} |-> IF x = k THEN v ELSE m[x]]

\* no warning issued
NoWarning == [issued |-> FALSE, keys |-> {}]

\* the instance attributes __init__ assigns (process_new.py 33-47) and the
\* names the class defines; reading any other attribute of a Process object
\* raises AttributeError
ProcessAttrs ==
    {"sonar_model", "process_obj", "_env_params", "_cal_params", "_proc_params",
     "PROCESS_SONAR", "proc_params", "env_params"}

\* process_new.py 33-47: __init__; the fields of the object, the outcome of
\* the last operation on it (exc, warning, whether the sound speed and the
\* absorption were calculated in it, whether it called
\* recalculate_environment) and the mapping the user last assigned to
\* env_params
Process(model) ==
    [sonar_model |-> model, process_obj |-> PROCESS_SONAR[model],
     env_params |-> EmptyMap,
     op |-> "__init__", exc |-> "none", warning |-> NoWarning,
     calculated |-> FALSE, recalc |-> FALSE, assigned |-> EmptyMap]

\* process_new.py 117-121: recalculate_environment(ed)
recalculate_environment(p, ed_given) ==
    IF ~ed_given /\ "ed" \notin ProcessAttrs
    THEN [p EXCEPT !.exc = "AttributeError", !.recalc = TRUE]
    ELSE [p EXCEPT
            !.env_params = SetItem(SetItem(p.env_params,
                               "speed_of_sound_in_sea_water", Calculated),
                               "seawater_absorption", Calculated),
            !.calculated = TRUE, !.recalc = TRUE]

\* a mutation of FilterParams: the assigned mapping is kept whole
FilterNothing(params) == params

\* process_new.py 110: the recognized entries of the assigned mapping
FilterParams(params) ==
    [k \in DOMAIN params \cap valid_params |-> params[k]]

\* process_new.py 102-113: the env_params setter up to its warning: the
\* assigned mapping is filtered and stored
env_params_assign(p, params) ==
    LET kept == FilterParams(params)
    IN  [p EXCEPT
           !.op = "env_params", !.exc = "none",
           !.calculated = FALSE, !.recalc = FALSE,
           !.env_params = kept,
           !.assigned = params,
           !.warning =
               IF kept # params
               THEN [issued |-> TRUE,
                     keys |-> {k \in DOMAIN params : k \notin valid_params}]
               ELSE NoWarning]

\* a mutation of env_params_setter: the mapping is stored and nothing is
\* recalculated until it is used
env_params_setter_lazy(p, params) == env_params_assign(p, params)

\* process_new.py 102-115: the env_params setter, for a mapping; its last
\* statement calls recalculate_environment()
env_params_setter(p, params) ==
    recalculate_environment(env_params_assign(p, params), FALSE)

\* process_new.py 142-175: align_to_range(ed)
align_to_range(p, e) ==
    LET env == get_env_from_raw(e)
        vend == get_vend_from_raw(e)
        p1 == [p EXCEPT !.op = "align_to_range", !.exc = "none",
                        !.warning = NoWarning, !.calculated = FALSE, !.recalc = FALSE]
    IN  IF env.exc # "none" THEN [p1 EXCEPT !.exc = env.exc]
        ELSE IF vend.exc # "none" THEN [p1 EXCEPT !.exc = vend.exc]
        ELSE [p1 EXCEPT
                !.env_params = SetItem(SetItem(p.env_params,
                                   "speed_of_sound_in_sea_water", Calculated),
                                   "seawater_absorption", Calculated),
                !.calculated = TRUE]

\* process_new.py 181-226: calibrate(ed, save=...); save_paths and cal_params
\* are read from the Process object
calibrate(p, e, save) ==
    LET env == get_env_from_raw(e)
        vend == get_vend_from_raw(e)
        p1 == [p EXCEPT !.op = "calibrate", !.exc = "none",
                        !.warning = NoWarning, !.calculated = FALSE, !.recalc = FALSE]
    IN  IF env.exc # "none" THEN [p1 EXCEPT !.exc = env.exc]
        ELSE IF vend.exc # "none" THEN [p1 EXCEPT !.exc = vend.exc]
        ELSE IF save /\ "save_paths" \notin ProcessAttrs
        THEN [p1 EXCEPT !.exc = "AttributeError"]
        ELSE IF "cal_params" \notin ProcessAttrs
        THEN [p1 EXCEPT !.exc = "AttributeError"]
        ELSE p1

(***************************************************************************)
(* The Process state machine                                               *)
(***************************************************************************)

\* the EchoData objects handed to the Process: one without raw files, one
\* with the two files of one deployment
ProcEdArgs ==
    {[t \in TypeSet |-> IF t = "raw" THEN r ELSE PNone] :
        r \in {PNone, PList(<<"a.nc", "b.nc">>)}}

ProcInit ==
    /\ \E m \in DOMAIN PROCESS_SONAR : proc = Process(m)
    /\ \E args \in ProcEdArgs :
          /\ EchoData(args).res.exc = "none"
          /\ ed = EchoData(args).e
    /\ last = Op("__init__", None, PNone, Ok, NoData)
    /\ cal = NoCall
    /\ conv = None

\* proc.env_params = params, for a mapping
SetEnvParams ==
    /\ \E params \in UserMappings : proc' = env_params_setter(proc, params)
    /\ UNCHANGED <<cal, ed, last, conv>>

\* proc.env_params = None (process_new.py 104-105)
SetEnvParamsNone ==
    /\ proc' = [proc EXCEPT !.op = "env_params_None", !.exc = "none",
                            !.warning = NoWarning, !.calculated = FALSE, !.recalc = FALSE]
    /\ UNCHANGED <<cal, ed, last, conv>>

\* proc.recalculate_environment(ed), with and without the argument
RecalculateEnvironment ==
    /\ \E ed_given \in BOOLEAN :
          proc' = recalculate_environment(
                     [proc EXCEPT !.op = "recalculate_environment",
                                  !.exc = "none", !.warning = NoWarning,
                                  !.calculated = FALSE, !.recalc = FALSE], ed_given)
    /\ UNCHANGED <<cal, ed, last, conv>>

\* proc.align_to_range(ed)
AlignToRange ==
    /\ proc' = align_to_range(proc, ed)
    /\ UNCHANGED <<cal, ed, last, conv>>

\* proc.calibrate(ed, save=...)
Calibrate ==
    /\ \E save \in BOOLEAN : proc' = calibrate(proc, ed, save)
    /\ UNCHANGED <<cal, ed, last, conv>>

ProcNext ==
    \/ SetEnvParams
    \/ SetEnvParamsNone
    \/ RecalculateEnvironment
    \/ AlignToRange
    \/ Calibrate

SpecProc == ProcInit /\ [][ProcNext]_vars

(***************************************************************************)
(* convert/convert.py: Convert                                             *)
(***************************************************************************)

\* the raw files a user may name: local files and URLs, one of them absent,
\* one of them not a raw file
RawNames ==
    {"f.raw", "https://h/g.raw", "s3://b/h.raw", "missing.raw",
     "d.01A", "http://h/e.01A", "notes.txt"}

\* urlparse(p).scheme
urlparse_scheme(p) ==
    CASE p \in {"https://h/g.raw", "https://h/cfg.XML"} -> "https"
      [] p = "http://h/e.01A" -> "http"
      [] p = "s3://b/h.raw" -> "s3"
      [] OTHER -> ""

\* the files that exist, locally or on their server
Existing ==
    {"f.raw", "https://h/g.raw", "s3://b/h.raw", "d.01A", "http://h/e.01A",
     "notes.txt", "cfg.XML", "https://h/cfg.XML"}

\* fsspec.filesystem(scheme).isfile(p): the file system of the path's scheme
\* is asked
fs_isfile(p) == p \in Existing

\* os.path.isfile(p): the local file system is asked, where a URL names
\* nothing
os_path_isfile(p) == p \in Existing /\ urlparse_scheme(p) = ""

\* the values a user may give as xml_path: the default, an XML file, the URL
\* of one, the name of an absent one, and a file that is not XML
XmlInputs == {"", "cfg.XML", "https://h/cfg.XML", "missing.xml", "notes.txt"}

\* '.XML' in xml_path.upper()
IsXmlName(x) == x \in {"cfg.XML", "https://h/cfg.XML", "missing.xml"}

\* the model names a user may give
ModelInputs == {"EK60", "EK80", "EA640", "AZFP"}

\* the largest number of files in a list given as path
MaxPaths == 2

\* the sequences of raw files of a length up to n
RawLists(n) == UNION {[1..k -> RawNames] : k \in 0..n}

\* the values a user may give as path: the default, a file, a list of files
ConvertPaths ==
    {PStr("")} \cup {PStr(f) : f \in RawNames}
        \cup {PList(l) : l \in RawLists(MaxPaths)}

\* the result of a call: what it raised or returned, and the converter
NoConverter == [cls |-> None]
Raised(exc) == [outcome |-> exc, converter |-> NoConverter]
Returned(c) == [outcome |-> "converter", converter |-> c]
ReturnedNone == [outcome |-> None, converter |-> NoConverter]

\* ConvertEK60(path), ConvertEK80(path), ConvertAZFP(path, xml_path): the
\* converter keeps the files it was given as the list source_file, and the
\* XML file
Converter(cls, path, xml_path) ==
    [cls |-> cls,
     source_file |-> IF path.kind = "str" THEN <<path.s>> ELSE path.l,
     xml_path |-> xml_path]

\* convert.py 37-49 and 53-60: the checks of one file; the extension is
\* compared for the elements of a list only
validate(p, ext, in_list) ==
    IF urlparse_scheme(p) \notin {"http", "https", ""}
    THEN "NotImplementedError"
    ELSE IF ~fs_isfile(p) THEN "FileNotFoundError"
    ELSE IF in_list /\ splitext(p) # ext THEN "ValueError"
    ELSE "none"

\* a mutation of validate_list: the first file of the list stands for all
validate_first_only(l, ext) == validate(l[1], ext, TRUE)

\* convert.py 36-49: the loop over the list; what the first file that fails
\* a check raises
validate_list(l, ext) ==
    LET bad == {i \in DOMAIN l : validate(l[i], ext, TRUE) # "none"}
    IN  IF bad = {} THEN "none"
        ELSE validate(l[CHOOSE i \in bad : \A j \in bad : i <= j], ext, TRUE)

\* convert.py 15-83: Convert(path, xml_path, model)
Convert(path, xml_path, model) ==
    IF path = PStr("") \/ path = PList(<<>>)
    THEN Raised("ValueError")
    ELSE LET first == IF path.kind = "list" THEN path.l[1] ELSE path.s
             ext == splitext(first)
             checked == IF path.kind = "list" THEN validate_list(path.l, ext)
                        ELSE validate(path.s, ext, FALSE)
         IN  IF checked # "none" THEN Raised(checked)
             ELSE IF ext = ".raw"
             THEN IF model = "EK60"
                  THEN Returned(Converter("ConvertEK60", path, ""))
                  ELSE IF model = "EK80" \/ model = "EA640"
                  THEN Returned(Converter("ConvertEK80", path, ""))
                  ELSE ReturnedNone
             ELSE IF ext = ".01A"
             THEN IF xml_path # ""
                  THEN IF IsXmlName(xml_path)
                       THEN IF ~os_path_isfile(xml_path)
                            THEN Raised("FileNotFoundError")
                            ELSE Returned(Converter("ConvertAZFP", path, xml_path))
                       ELSE Raised("ValueError")
                  ELSE Raised("ValueError")
             ELSE Raised("ValueError")

(***************************************************************************)
(* The calls of Convert                                                    *)
(***************************************************************************)

\* the arguments of a call are chosen; nothing is called yet
ConvInit ==
    /\ \E path \in ConvertPaths, xml_path \in XmlInputs, model \in ModelInputs :
          conv = [path |-> path, xml_path |-> xml_path, model |-> model,
                  called |-> FALSE, outcome |-> None, converter |-> NoConverter]
    /\ cal = NoCall
    /\ proc = None
    /\ ed = None
    /\ last = None

\* Convert(path, xml_path, model) with the arguments chosen
CallConvert ==
    /\ ~conv.called
    /\ LET r == Convert(conv.path, conv.xml_path, conv.model)
       IN  conv' = [conv EXCEPT !.called = TRUE, !.outcome = r.outcome,
                                !.converter = r.converter]
    /\ UNCHANGED <<cal, proc, ed, last>>

ConvNext == CallConvert

SpecConv == ConvInit /\ [][ConvNext]_vars

(***************************************************************************)
(* Properties of the calibration entry points (SpecCal)                    *)
(***************************************************************************)

\* the errors that report a bad calibration configuration
ConfigurationErrors == {"ValueError", "ConfigurationError"}

\* a call of compute_Sv / compute_Sp was made
CalCalled == cal.outcome # None

\* C1: for the broadband-capable model EK80, a call that leaves waveform_mode
\* or encode_mode unspecified ends in a configuration error, and no method of
\* a calibrator is invoked with a missing mode.
C1_MissingModeRejected ==
    (/\ CalCalled
     /\ cal.args.sonar_model = "EK80"
     /\ (cal.args.waveform_mode = None \/ cal.args.encode_mode = None))
        => /\ cal.outcome \in ConfigurationErrors
           /\ cal.invoked = NoObj

\* C2: a call with waveform_mode "BB" and encode_mode "power" ends in a
\* configuration error raised before any calibrator is constructed and before
\* any computation is invoked.
C2_BroadbandPowerRejected ==
    (/\ CalCalled
     /\ cal.args.waveform_mode = "BB"
     /\ cal.args.encode_mode = "power")
        => /\ cal.outcome \in ConfigurationErrors
           /\ cal.constructed = NoObj
           /\ cal.invoked = NoObj

\* C3: a waveform_mode that is given and not "BB" or "CW", or an encode_mode
\* that is given and not "complex" or "power", raises ValueError with no
\* calibrator looked up or constructed and no compute method invoked; every
\* calibrator that is constructed or invoked has modes of the closed sets,
\* or unspecified.
C3_InvalidModeRaisesFirst ==
    /\ (/\ CalCalled
        /\ \/ cal.args.waveform_mode \notin {None, "BB", "CW"}
           \/ cal.args.encode_mode \notin {None, "complex", "power"})
          => /\ cal.outcome = "ValueError"
             /\ cal.constructed = NoObj
             /\ cal.invoked = NoObj
    /\ \A o \in {cal.constructed, cal.invoked} :
          o # NoObj => /\ o.waveform_mode \in {None, "BB", "CW"}
                       /\ o.encode_mode \in {None, "complex", "power"}

\* C3, witness: a call with a recognized waveform_mode and an unrecognized
\* encode_mode was rejected with nothing constructed
C3_Witness ==
    /\ CalCalled
    /\ cal.args.waveform_mode = "CW"
    /\ cal.args.encode_mode = "angle"
    /\ cal.outcome = "ValueError"
    /\ cal.constructed = NoObj

(***************************************************************************)
(* Properties of the Process parameter bookkeeping (SpecProc)              *)
(***************************************************************************)

\* the recognized environment parameter keys
RecognizedKeys ==
    {"sea_water_salinity", "sea_water_temperature", "sea_water_pressure",
     "speed_of_sound_in_sea_water", "seawater_absorption"}

\* the unrecognized keys of the mapping last assigned
Unrecognized == DOMAIN proc.assigned \ RecognizedKeys

C5_UnrecognizedKeysNonFatal ==
    (/\ proc.op = "env_params"
     /\ Unrecognized # {}
     /\ DOMAIN proc.assigned \cap RecognizedKeys # {})
        => proc.exc = "none"

\* C6: a value the user assigned for speed_of_sound_in_sea_water or
\* seawater_absorption is still the effective value after the assignment and
\* after any later align_to_range or calibrate call.
C6_UserValuesKept ==
    proc.op \in {"env_params", "align_to_range", "calibrate"}
        => \A k \in DOMAIN proc.assigned \cap
                    {"speed_of_sound_in_sea_water", "seawater_absorption"} :
               /\ k \in DOMAIN proc.env_params
               /\ proc.env_params[k] = proc.assigned[k]

(***************************************************************************)
(* Properties of the EchoData data model (Spec)                            *)
(***************************************************************************)

\* the key parameter of the group differs between two of the files
Differ(files, group) ==
    \E i, j \in DOMAIN files :
        FileSys[files[i]].cfg[group] # FileSys[files[j]].cfg[group]

\* the accessors of the raw groups, and the group each is for
Accessors == {"get_env_from_raw", "get_vend_from_raw", "get_beam_from_raw"}
GroupOf(op) ==
    CASE op = "get_env_from_raw" -> "Environment"
      [] op = "get_vend_from_raw" -> "Vendor"
      [] OTHER -> "Beam"

\* the last operation opened several files as one dataset: an accessor on a
\* raw_path that lists readable files, or the assignment of a list of
\* readable files to a path (the Beam group for raw_path, the top level for
\* the others)
OpenedFiles ==
    IF last.op \in Accessors /\ ed.path["raw"].kind = "list"
    THEN ed.path["raw"].l
    ELSE IF last.op \in Accessors /\ ed.path["raw"].kind = "str"
    THEN <<ed.path["raw"].s>>
    ELSE IF last.op = "set_path" /\ last.arg.kind = "list"
    THEN last.arg.l
    ELSE <<>>
OpenedGroup ==
    IF last.op \in Accessors THEN GroupOf(last.op)
    ELSE IF last.type = "raw" THEN "Beam" ELSE None
OpenedEngine ==
    IF last.op \in Accessors \/ last.type = "raw" THEN ed.file_format
    ELSE FileSys[OpenedFiles[1]].fmt
Readable ==
    /\ OpenedFiles # <<>>
    /\ \A i \in DOMAIN OpenedFiles : OpenedFiles[i] \in FileNames
    /\ \A i \in DOMAIN OpenedFiles : CanOpen(OpenedFiles[i], OpenedEngine)

\* C7: opening several files whose key parameter differs fails with an error
\* that names the parameter.
C7_MismatchNamesParameter ==
    (Readable /\ Differ(OpenedFiles, OpenedGroup))
        => /\ last.exc = "ValueError"
           /\ last.msg = ParamName(OpenedGroup)

\* the dataset the last operation produced
Produced ==
    IF last.op \in Accessors THEN last.ret ELSE ed.data[last.type]

RECURSIVE SortSet(_)
\* the elements of a set of numbers in increasing order
SortSet(S) ==
    IF S = {} THEN <<>>
    ELSE LET m == CHOOSE x \in S : \A y \in S : x <= y
         IN  <<m>> \o SortSet(S \ {m})

\* the ping times of the files
PingTimes(files) ==
    UNION {{FileSys[files[i]].ping_time[k] :
                k \in DOMAIN FileSys[files[i]].ping_time} : i \in DOMAIN files}

\* C8: when files of identical configuration are opened as one dataset along
\* ping_time, the ping_time axis of the dataset is the sorted union of the
\* files' ping times, in whatever order the files are listed.
C8_MergedPingTimeSorted ==
    (/\ Readable
     /\ ~Differ(OpenedFiles, OpenedGroup)
     /\ OpenedGroup # "Vendor"
     /\ last.exc = "none")
        => /\ Produced.kind = "Dataset"
           /\ Produced.ping_time = SortSet(PingTimes(OpenedFiles))

\* C9: once _sonar_model holds a value no operation changes it, and every
\* successful read of sonar_model returns it.
C9_SonarModelFixed ==
    [][/\ ed.sonar_model # None => ed'.sonar_model = ed.sonar_model
       /\ (last'.op = "sonar_model" /\ last'.exc = "none" /\ ed.sonar_model # None)
             => last'.ret.s = ed.sonar_model]_vars

\* C9, witness: a read returned the value determined earlier although the
\* first raw file now is one of another sonar model
C9_Witness ==
    /\ last.op = "sonar_model"
    /\ last.exc = "none"
    /\ ed.path["raw"].kind = "list"
    /\ ed.path["raw"].l # <<>>
    /\ ed.path["raw"].l[1] \in FileNames
    /\ CanOpen(ed.path["raw"].l[1], ed.file_format)
    /\ FileSys[ed.path["raw"].l[1]].keywords # last.ret.s

PathDataAgree(e, t) == (e.data[t] = NoData) <=> (e.path[t] = PNone)

\* C16: after construction, and after every successful path assignment that
\* follows, the dataset of each data type is None exactly when its path is
\* None; assigning None clears the path and the dataset of that type.
C16_DataNoneIffPathNone ==
    /\ (last.op = "__init__" => \A t \in TypeSet : PathDataAgree(ed, t))
    /\ [][(last'.op = "set_path" /\ last'.exc = "none")
            => /\ \A t \in TypeSet :
                     PathDataAgree(ed, t) => PathDataAgree(ed', t)
               /\ PathDataAgree(ed', last'.type)
               /\ last'.arg = PNone
                     => /\ ed'.path[last'.type] = PNone
                        /\ ed'.data[last'.type] = NoData]_vars

\* C16, witness: None was assigned to the raw path of an object whose other
\* datasets and paths agree; an object with a loaded Sv dataset
C16_Witness ==
    /\ last.op = "set_path"
    /\ last.exc = "none"
    /\ last.type = "raw"
    /\ last.arg = PNone
    /\ ed.data["Sv"] # NoData
    /\ ed.path["Sv"] # PNone

\* C17: a path assignment that raises (ValueError: an unsupported path value,
\* or a parameter that changes across the files) leaves the object as it was:
\* the stored path and the loaded dataset are those of before the assignment.
C17_FailedAssignmentNoChange ==
    [][(last'.op = "set_path" /\ last'.exc = "ValueError") => ed' = ed]_vars

\* C18: the stored path of every data type is None or a list of file paths,
\* never a bare string.
C18_PathNoneOrList ==
    \A t \in TypeSet : ed.path[t].kind \in {"None", "list"}

\* the raw files as a list
RawFiles ==
    IF ed.path["raw"].kind = "list" THEN ed.path["raw"].l
    ELSE IF ed.path["raw"].kind = "str" THEN <<ed.path["raw"].s>>
    ELSE <<>>

\* the last operation opened a group of the raw files: an accessor, or an
\* assignment to raw_path that stored a file list
OpensRaw ==
    /\ RawFiles # <<>>
    /\ \/ last.op \in Accessors
       \/ /\ last.op = "set_path"
          /\ last.type = "raw"
          /\ last.arg # PNone
          /\ last.msg # "Unsupported file path"

\* the format xarray reads with: the engine given, and the netCDF reader when
\* none is given
EngineUsed == IF ed.file_format = None THEN "netcdf4" ELSE ed.file_format

\* C19: whenever a group of the raw files is opened, the format used is the
\* one of the raw files' extension (.nc: netcdf4, .zarr: zarr).
C19_FormatMatchesRawFiles ==
    OpensRaw => EngineUsed = get_file_format(RawFiles[1])

(***************************************************************************)
(* Properties of Convert (SpecConv)                                        *)
(***************************************************************************)

\* the files given to the call, as a list
GivenFiles ==
    IF conv.path.kind = "str"
    THEN (IF conv.path.s = "" THEN <<>> ELSE <<conv.path.s>>)
    ELSE conv.path.l

\* the errors Convert raises
ConvertErrors == {"ValueError", "NotImplementedError", "FileNotFoundError"}

\* b holds the elements of a, each as often, in some order
IsPermutation(a, b) ==
    /\ Len(a) = Len(b)
    /\ \A x \in {a[i] : i \in DOMAIN a} :
          Cardinality({i \in DOMAIN a : a[i] = x})
              = Cardinality({i \in DOMAIN b : b[i] = x})

\* the files given are raw files of the model that exist at an http(s) or
\* s3 URL (with the XML file that AZFP needs)
RemoteRawFiles ==
    /\ GivenFiles # <<>>
    /\ \A i \in DOMAIN GivenFiles :
          /\ urlparse_scheme(GivenFiles[i]) \in {"http", "https", "s3"}
          /\ GivenFiles[i] \in Existing
    /\ \/ /\ conv.model \in {"EK60", "EK80"}
          /\ \A i \in DOMAIN GivenFiles : splitext(GivenFiles[i]) = ".raw"
       \/ /\ conv.model = "AZFP"
          /\ \A i \in DOMAIN GivenFiles : splitext(GivenFiles[i]) = ".01A"
          /\ IsXmlName(conv.xml_path)
          /\ conv.xml_path \in Existing

\* C11: for raw files at http(s) or s3 URLs and the models AZFP, EK60 and
\* EK80, Convert returns a converter whose source_file holds the given files:
\* the file itself first for a single file, a permutation of the list for a
\* list.
C11_RemoteFilesAccepted ==
    (conv.called /\ RemoteRawFiles)
        => /\ conv.outcome = "converter"
           /\ conv.path.kind = "str" => conv.converter.source_file[1] = conv.path.s
           /\ conv.path.kind = "list" =>
                 IsPermutation(conv.converter.source_file, conv.path.l)

\* C13: every call of Convert returns a converter or raises an error; none
\* returns without either.
C13_NeverSilent ==
    conv.called => conv.outcome \in ConvertErrors \cup {"converter"}

\* C14: every model for which Convert returns a converter has a processing
\* implementation in PROCESS_SONAR and a calibrator in CALIBRATOR, so that
\* calibrating its data never fails in the lookup of the calibrator.
C14_ConvertedModelsCalibrated ==
    (conv.called /\ conv.outcome = "converter")
        => /\ conv.model \in DOMAIN PROCESS_SONAR
           /\ conv.model \in DOMAIN CALIBRATOR
           /\ \A t \in CalTypes, w \in WaveformInputs, e \in EncodeInputs :
                 _compute_cal(t, conv.model, w, e).outcome # "KeyError"

\* a file of a list that fails one of the checks: a scheme that is not
\* supported, a file that does not exist, an extension other than that of the
\* first file
BadElement(p, first) ==
    \/ urlparse_scheme(p) \notin {"http", "https", ""}
    \/ p \notin Existing
    \/ splitext(p) # splitext(first)

\* C15: when a list is given and any of its elements fails a check, at any
\* position, Convert raises and returns no converter.
C15_EveryElementValidated ==
    (/\ conv.called
     /\ conv.path.kind = "list"
     /\ \E i \in DOMAIN conv.path.l : BadElement(conv.path.l[i], conv.path.l[1]))
        => /\ conv.outcome \in ConvertErrors
           /\ conv.converter = NoConverter

\* C15, witness: a call for EK60 with a list whose first file is a raw file
\* that passes the checks and whose last file fails one
C15_Witness ==
    /\ conv.called
    /\ conv.path.kind = "list"
    /\ Len(conv.path.l) >= 2
    /\ conv.model = "EK60"
    /\ splitext(conv.path.l[1]) = ".raw"
    /\ ~BadElement(conv.path.l[1], conv.path.l[1])
    /\ BadElement(conv.path.l[Len(conv.path.l)], conv.path.l[1])
    /\ conv.outcome \in ConvertErrors

====
